---- MODULE Spec2Model ----
(***************************************************************************)
(* The VDDK build endpoint of the vSphere provider web handler             *)
(* (pkg/controller/provider/web/vsphere/vddk.go): the busy flag guarded by *)
(* buildLock, the BuildImage handler that takes it, stages the uploaded    *)
(* tar and triggers the BuildConfig, and the detached goroutine that       *)
(* clears the flag after waitForDownload.                                  *)
(***************************************************************************)
EXTENDS Integers, Sequences, FiniteSets, TLC

\* ------------------------------------------------------------------ bounds
NumReqs == 2
MaxLen == 1
TickSeconds == 5

\* ------------------------------------------------------- program constants
waitForDownload == 15
StatusOK == 200
StatusBadRequest == 400
StatusNotFound == 404
StatusInternalServerError == 500
StatusServiceUnavailable == 503

Reqs == 1..NumReqs
Bytes == {1, 2}

\* The contents an uploaded "file" form field can carry.
Payloads == UNION {[1..n -> Bytes] : n \in 0..MaxLen}

\* What ctx.FormFile("file") can yield: no such field, or a file header.
FormFiles ==
  {[present |-> FALSE, data |-> <<>>]} \cup
  {[present |-> TRUE, data |-> p] : p \in Payloads}

\* The statuses Handler.Prepare hands back when it refuses the request.
PrepareFailures == {StatusNotFound, StatusInternalServerError}

\* The values of Image.DockerImageReference.
ImageRefs == {"vddk@sha256:a", "vddk@sha256:b"}

VARIABLES
  buildLock,  \* the holder of the sync.Mutex buildLock
  isBusy,     \* the package-level busy flag
  req,        \* per BuildImage request: the handler's position and locals
  timer,      \* per request: the goroutine its resetBusyAfter started
  file,       \* uploadDir/vddkTarFileName on disk
  cycle,      \* history of the current lease cycle (since the last resetBusy)
  staged,     \* history: the payload the staged file holds completely, if any
  dl,         \* the GET download-tar request: its position and its response
  registry,   \* the ImageStreamTag registryImageTag in the cluster
  lookup      \* per GET image-url request: its position and its response

vars ==
  <<buildLock, isBusy, req, timer, file, cycle, staged, dl, registry, lookup>>

\* The state of the other endpoints, which BuildImage and the release leave
\* alone.
web == <<dl, registry, lookup>>

\* ------------------------------------------------------------------ values
Free == [kind |-> "free", id |-> 0]
Handler(r) == [kind |-> "handler", id |-> r]
Goroutine(r) == [kind |-> "goroutine", id |-> r]

NoTimer == [state |-> "none", remaining |-> 0, elapsed |-> 0]

NewReq ==
  [pc |-> "new", upload |-> [present |-> FALSE, data |-> <<>>], dst |-> "none",
   copied |-> 0, responses |-> <<>>, admitted |-> FALSE, sawBusy |-> FALSE,
   triggerCalls |-> 0, triggerErr |-> "none"]

NewCycle == [admits |-> 0, triggers |-> 0, fired |-> FALSE]

\* No upload has been staged: `valid` says that the last io.Copy returned nil
\* with no os.Create since, and `data` is then the payload it copied; `count`
\* counts the io.Copy calls that returned nil (up to two).
NotStaged == [valid |-> FALSE, data |-> <<>>, count |-> 0]

NoDownload == [pc |-> "idle", code |-> 0, data |-> <<>>]

\* The ImageStreamTag does not exist.
NoImage == [exists |-> FALSE, ref |-> ""]

\* What ImageStreamTags(namespace).Get has not returned yet.
NoGet == [err |-> "none", ref |-> ""]

NoLookup ==
  [pc |-> "idle", get |-> NoGet, url |-> "", exists |-> FALSE, err |-> "nil",
   code |-> 0, status |-> "none", imageReference |-> ""]

Min(a, b) == IF a < b THEN a ELSE b
Max(a, b) == IF a > b THEN a ELSE b

\* The positions of BuildImage between the admission and the handler's return.
AdmittedPcs == {"formfile", "open", "mkdir", "create", "copy", "trigger", "triggering"}

InFlight == {r \in Reqs : req[r].pc \in AdmittedPcs}

\* ---------------------------------------------------------------- responses
JSONError(responses, code) ==
  Append(responses, [code |-> code, status |-> "error"])

JSONSuccess(responses) ==
  Append(responses, [code |-> StatusOK, status |-> "success"])

\* ctx.Status(status) with base.SetForkliftError: a status, no JSON envelope.
StatusOnly(responses, code) ==
  Append(responses, [code |-> code, status |-> "none"])

\* -------------------------------------------------------------------- Init
Init ==
  /\ buildLock = Free
  /\ isBusy = FALSE
  /\ req = [r \in Reqs |-> NewReq]
  /\ timer = [r \in Reqs |-> NoTimer]
  /\ file = [exists |-> FALSE, data |-> <<>>]
  /\ cycle = NewCycle
  /\ staged = NotStaged
  /\ dl = NoDownload
  /\ registry = NoImage
  /\ lookup = [r \in Reqs |-> NoLookup]

\* ------------------------------------------------------------- the release
\* resetBusyAfter as it would be without the time.Sleep before resetBusy.
resetBusyAfter_NoSleep(r, timeout) ==
  timer' = [timer EXCEPT ![r] =
              [state |-> "sleeping", remaining |-> 0, elapsed |-> 0]]

\* resetBusyAfter: go func() { time.Sleep(timeout); resetBusy() }() started by
\* the handler of request r.
resetBusyAfter(r, timeout) ==
  timer' = [timer EXCEPT ![r] =
              [state |-> "sleeping", remaining |-> timeout, elapsed |-> 0]]

\* The handler of an admitted request returns after writing `responses`: its
\* deferred resetBusyAfter(waitForDownload) runs (dst.Close and src.Close
\* change nothing modelled here).
Return(r, responses) ==
  /\ req' = [req EXCEPT ![r].pc = "done", ![r].responses = responses,
                        ![r].upload = NewReq.upload, ![r].dst = "none",
                        ![r].copied = 0]
  /\ resetBusyAfter(r, waitForDownload)

\* Return after BuildAndPushImage gave err ("nil" or "err").
ReturnTriggered(r, err, responses) ==
  /\ req' = [req EXCEPT ![r].pc = "done", ![r].responses = responses,
                        ![r].upload = NewReq.upload, ![r].dst = "none",
                        ![r].copied = 0, ![r].triggerErr = err]
  /\ resetBusyAfter(r, waitForDownload)

\* TickSeconds pass for every sleeping goroutine.
Tick ==
  /\ \E r \in Reqs : timer[r].state = "sleeping" /\ timer[r].remaining > 0
  /\ timer' = [r \in Reqs |->
                 IF timer[r].state = "sleeping"
                 THEN [timer[r] EXCEPT !.remaining = Max(0, @ - TickSeconds),
                                       !.elapsed = Min(waitForDownload, @ + TickSeconds)]
                 ELSE timer[r]]
  /\ UNCHANGED <<buildLock, isBusy, req, file, cycle>>
  /\ UNCHANGED <<staged, web>>

\* time.Sleep(timeout) has returned and resetBusy takes buildLock.
SleepReturns(r) ==
  /\ timer[r].state = "sleeping"
  /\ timer[r].remaining = 0
  /\ buildLock = Free
  /\ buildLock' = Goroutine(r)
  /\ timer' = [timer EXCEPT ![r].state = "locked"]
  /\ UNCHANGED <<isBusy, req, file, cycle>>
  /\ UNCHANGED <<staged, web>>

\* resetBusy as it would be if it released the lease only for the caller
\* that acquired it.
resetBusy_OwnerOnly(r) ==
  /\ timer[r].state = "locked"
  /\ isBusy' = IF req[r].admitted THEN FALSE ELSE isBusy
  /\ buildLock' = Free
  /\ timer' = [timer EXCEPT ![r] = NoTimer]
  /\ cycle' = [NewCycle EXCEPT !.fired = TRUE]
  /\ UNCHANGED <<req, file>>
  /\ UNCHANGED <<staged, web>>

\* resetBusy under the lock: isBusy = false; buildLock.Unlock(); the goroutine
\* ends.
resetBusy(r) ==
  /\ timer[r].state = "locked"
  /\ isBusy' = FALSE
  /\ buildLock' = Free
  /\ timer' = [timer EXCEPT ![r] = NoTimer]
  /\ cycle' = [NewCycle EXCEPT !.fired = TRUE]
  /\ UNCHANGED <<req, file>>
  /\ UNCHANGED <<staged, web>>

\* A goroutine calls resetBusy() now, whatever the state of the lease: the
\* release with nothing to sleep.
resetBusyCall(r) ==
  /\ timer[r].state = "none"
  /\ resetBusyAfter(r, 0)
  /\ UNCHANGED <<buildLock, isBusy, req, file, cycle>>
  /\ UNCHANGED <<staged, web>>

\* -------------------------------------------------------------- BuildImage
\* A new POST build-image request reaches the handler.
Arrive(r) ==
  /\ req[r].pc \in {"new", "done"}
  /\ timer[r].state = "none"
  /\ req' = [req EXCEPT ![r] = [NewReq EXCEPT !.pc = "prepare"]]
  /\ UNCHANGED <<buildLock, isBusy, timer, file, cycle>>
  /\ UNCHANGED <<staged, web>>

\* Prepare as it would be if the release were deferred at the top of the
\* handler, so that a request that fails Prepare schedules one too.
Prepare_DeferFirst(r) ==
  /\ req[r].pc = "prepare"
  /\ \/ /\ req' = [req EXCEPT ![r].pc = "lock"]
        /\ UNCHANGED timer
     \/ \E st \in PrepareFailures :
          /\ req' = [req EXCEPT ![r].pc = "done",
                                ![r].responses = StatusOnly(@, st)]
          /\ resetBusyAfter(r, waitForDownload)
  /\ UNCHANGED <<buildLock, isBusy, file, cycle>>
  /\ UNCHANGED <<staged, web>>

\* status, err := h.Prepare(ctx); a status other than 200 ends the request.
Prepare(r) ==
  /\ req[r].pc = "prepare"
  /\ \/ req' = [req EXCEPT ![r].pc = "lock"]
     \/ \E st \in PrepareFailures :
          req' = [req EXCEPT ![r].pc = "done",
                             ![r].responses = StatusOnly(@, st)]
  /\ UNCHANGED <<buildLock, isBusy, timer, file, cycle>>
  /\ UNCHANGED <<staged, web>>

\* Lock as it would be if the admission check ran without the mutex.
Lock_NoMutex(r) ==
  /\ req[r].pc = "lock"
  /\ buildLock' = Handler(r)
  /\ req' = [req EXCEPT ![r].pc = "check"]
  /\ UNCHANGED <<isBusy, timer, file, cycle>>
  /\ UNCHANGED <<staged, web>>

\* buildLock.Lock()
Lock(r) ==
  /\ req[r].pc = "lock"
  /\ buildLock = Free
  /\ buildLock' = Handler(r)
  /\ req' = [req EXCEPT ![r].pc = "check"]
  /\ UNCHANGED <<isBusy, timer, file, cycle>>
  /\ UNCHANGED <<staged, web>>

\* CheckBusy as it would be if the release were deferred before the check, so
\* that the busy return schedules one too.
CheckBusy_RejectSchedules(r) ==
  /\ req[r].pc = "check"
  /\ IF isBusy
     THEN /\ buildLock' = Free
          /\ req' = [req EXCEPT ![r].pc = "done", ![r].sawBusy = TRUE,
                                ![r].responses =
                                  JSONError(@, StatusServiceUnavailable)]
          /\ resetBusyAfter(r, waitForDownload)
     ELSE /\ req' = [req EXCEPT ![r].pc = "set"]
          /\ UNCHANGED <<buildLock, timer>>
  /\ UNCHANGED <<isBusy, file, cycle>>
  /\ UNCHANGED <<staged, web>>

\* if isBusy { buildLock.Unlock(); JSONError(503); return }
CheckBusy(r) ==
  /\ req[r].pc = "check"
  /\ IF isBusy
     THEN /\ buildLock' = Free
          /\ req' = [req EXCEPT ![r].pc = "done", ![r].sawBusy = TRUE,
                                ![r].responses =
                                  JSONError(@, StatusServiceUnavailable)]
     ELSE /\ req' = [req EXCEPT ![r].pc = "set"]
          /\ UNCHANGED buildLock
  /\ UNCHANGED <<isBusy, timer, file, cycle>>
  /\ UNCHANGED <<staged, web>>

\* SetBusy as it would be if resetBusyAfter were called at the admission
\* instead of being deferred to the handler's return.
SetBusy_EagerRelease(r) ==
  /\ req[r].pc = "set"
  /\ isBusy' = TRUE
  /\ buildLock' = Free
  /\ req' = [req EXCEPT ![r].pc = "formfile", ![r].admitted = TRUE]
  /\ cycle' = [cycle EXCEPT !.admits = Min(2, @ + 1), !.fired = FALSE]
  /\ resetBusyAfter(r, waitForDownload)
  /\ UNCHANGED file
  /\ UNCHANGED <<staged, web>>

\* isBusy = true; buildLock.Unlock(); defer resetBusyAfter(waitForDownload)
SetBusy(r) ==
  /\ req[r].pc = "set"
  /\ isBusy' = TRUE
  /\ buildLock' = Free
  /\ req' = [req EXCEPT ![r].pc = "formfile", ![r].admitted = TRUE]
  /\ cycle' = [cycle EXCEPT !.admits = Min(2, @ + 1), !.fired = FALSE]
  /\ UNCHANGED <<timer, file>>
  /\ UNCHANGED <<staged, web>>

\* FormFile as it would be if a missing file were answered with the busy
\* status.
FormFile_MissingAsBusy(r) ==
  /\ req[r].pc = "formfile"
  /\ \E f \in FormFiles :
       IF f.present
       THEN /\ req' = [req EXCEPT ![r].pc = "open", ![r].upload = f]
            /\ UNCHANGED timer
       ELSE Return(r, JSONError(req[r].responses, StatusServiceUnavailable))
  /\ UNCHANGED <<buildLock, isBusy, file, cycle>>
  /\ UNCHANGED <<staged, web>>

\* file, err := ctx.FormFile("file"): reads the request body; no file field
\* answers 400 and returns.
FormFile(r) ==
  /\ req[r].pc = "formfile"
  /\ \E f \in FormFiles :
       IF f.present
       THEN /\ req' = [req EXCEPT ![r].pc = "open", ![r].upload = f]
            /\ UNCHANGED timer
       ELSE Return(r, JSONError(req[r].responses, StatusBadRequest))
  /\ UNCHANGED <<buildLock, isBusy, file, cycle>>
  /\ UNCHANGED <<staged, web>>

\* src, err := file.Open()
Open(r) ==
  /\ req[r].pc = "open"
  /\ \/ /\ req' = [req EXCEPT ![r].pc = "mkdir"]
        /\ UNCHANGED timer
     \/ Return(r, JSONError(req[r].responses, StatusInternalServerError))
  /\ UNCHANGED <<buildLock, isBusy, file, cycle>>
  /\ UNCHANGED <<staged, web>>

\* os.MkdirAll(uploadDir, uploadDirPerm)
MkdirAll(r) ==
  /\ req[r].pc = "mkdir"
  /\ \/ /\ req' = [req EXCEPT ![r].pc = "create"]
        /\ UNCHANGED timer
     \/ Return(r, JSONError(req[r].responses, StatusInternalServerError))
  /\ UNCHANGED <<buildLock, isBusy, file, cycle>>
  /\ UNCHANGED <<staged, web>>

\* Create as it would be if the file were opened without O_TRUNC, so that
\* what an earlier upload wrote stays in it.
Create_NoTruncate(r) ==
  /\ req[r].pc = "create"
  /\ \/ /\ file' = [file EXCEPT !.exists = TRUE]
        /\ staged' = [staged EXCEPT !.valid = FALSE, !.data = <<>>]
        /\ req' = [req EXCEPT ![r].pc = "copy", ![r].dst = "open"]
     \/ /\ req' = [req EXCEPT ![r].pc = "copy", ![r].dst = "nil",
                              ![r].responses =
                                JSONError(@, StatusInternalServerError)]
        /\ UNCHANGED <<file, staged>>
  /\ UNCHANGED <<buildLock, isBusy, timer, cycle>>
  /\ UNCHANGED web

\* dst, err := os.Create(filePath): success truncates the staged file; on
\* failure the handler answers 500 and, having no return, goes on with a nil
\* dst.
Create(r) ==
  /\ req[r].pc = "create"
  /\ \/ /\ file' = [exists |-> TRUE, data |-> <<>>]
        /\ staged' = [staged EXCEPT !.valid = FALSE, !.data = <<>>]
        /\ req' = [req EXCEPT ![r].pc = "copy", ![r].dst = "open"]
     \/ /\ req' = [req EXCEPT ![r].pc = "copy", ![r].dst = "nil",
                              ![r].responses =
                                JSONError(@, StatusInternalServerError)]
        /\ UNCHANGED <<file, staged>>
  /\ UNCHANGED <<buildLock, isBusy, timer, cycle>>
  /\ UNCHANGED web

\* A write of byte b at offset k of the staged file (a hole reads as 0).
WriteAt(data, k, b) ==
  [i \in 1..Max(Len(data), k + 1) |->
     IF i = k + 1 THEN b ELSE IF i <= Len(data) THEN data[i] ELSE 0]

\* io.Copy(dst, src) moves the next byte of the upload to the staged file.
CopyWrite(r) ==
  /\ req[r].pc = "copy"
  /\ req[r].dst = "open"
  /\ req[r].copied < Len(req[r].upload.data)
  /\ file' = [exists |-> TRUE,
              data |-> WriteAt(file.data, req[r].copied,
                               req[r].upload.data[req[r].copied + 1])]
  /\ req' = [req EXCEPT ![r].copied = @ + 1]
  /\ UNCHANGED <<buildLock, isBusy, timer, cycle>>
  /\ UNCHANGED <<staged, web>>

\* io.Copy returns nil: the source is at its end.
CopyDone(r) ==
  /\ req[r].pc = "copy"
  /\ req[r].dst = "open"
  /\ req[r].copied = Len(req[r].upload.data)
  /\ req' = [req EXCEPT ![r].pc = "trigger"]
  /\ staged' = [valid |-> TRUE, data |-> req[r].upload.data,
                count |-> Min(2, staged.count + 1)]
  /\ UNCHANGED <<buildLock, isBusy, timer, file, cycle>>
  /\ UNCHANGED web

\* CopyError as it would be without its return, the slip of the os.Create
\* error path: the handler answers 500 and goes on to the trigger.
CopyError_NoReturn(r) ==
  /\ req[r].pc = "copy"
  /\ req[r].dst \in {"open", "nil"}
  /\ req' = [req EXCEPT ![r].pc = "trigger",
                        ![r].responses =
                          JSONError(@, StatusInternalServerError)]
  /\ UNCHANGED <<buildLock, isBusy, timer, file, cycle>>
  /\ UNCHANGED <<staged, web>>

\* CopyError as it would be if the handler released the lease at once on a
\* staging failure (a resetBusy call on the error path).
CopyError_ShortcutRelease(r) ==
  /\ req[r].pc = "copy"
  /\ req[r].dst \in {"open", "nil"}
  /\ buildLock = Free
  /\ isBusy' = FALSE
  /\ Return(r, JSONError(req[r].responses, StatusInternalServerError))
  /\ UNCHANGED <<buildLock, file, cycle>>
  /\ UNCHANGED <<staged, web>>

\* io.Copy returns an error: a read or write failed, or dst is the nil file of
\* a failed os.Create (os.File methods on a nil receiver return ErrInvalid).
CopyError(r) ==
  /\ req[r].pc = "copy"
  /\ req[r].dst \in {"open", "nil"}
  /\ Return(r, JSONError(req[r].responses, StatusInternalServerError))
  /\ UNCHANGED <<buildLock, isBusy, file, cycle>>
  /\ UNCHANGED <<staged, web>>

\* BuildAndPushImage() is called.
BuildAndPushImageCall(r) ==
  /\ req[r].pc = "trigger"
  /\ req' = [req EXCEPT ![r].pc = "triggering",
                        ![r].triggerCalls = Min(2, @ + 1)]
  /\ cycle' = [cycle EXCEPT !.triggers = Min(2, @ + 1)]
  /\ UNCHANGED <<buildLock, isBusy, timer, file>>
  /\ UNCHANGED <<staged, web>>

\* BuildAndPushImageReturn as it would be if the release were scheduled on
\* the success path only instead of being deferred.
BuildAndPushImageReturn_NoReleaseOnError(r) ==
  /\ req[r].pc = "triggering"
  /\ \/ /\ req' = [req EXCEPT ![r] =
                     [NewReq EXCEPT !.pc = "done", !.admitted = TRUE,
                        !.triggerCalls = req[r].triggerCalls,
                        !.triggerErr = "err",
                        !.responses = JSONError(req[r].responses,
                                                StatusInternalServerError)]]
        /\ UNCHANGED timer
     \/ ReturnTriggered(r, "nil", JSONSuccess(req[r].responses))
  /\ UNCHANGED <<buildLock, isBusy, file, cycle>>
  /\ UNCHANGED <<staged, web>>

\* BuildAndPushImageReturn as it would be if a failed trigger were retried.
BuildAndPushImageReturn_Retry(r) ==
  /\ req[r].pc = "triggering"
  /\ \/ /\ req' = [req EXCEPT ![r].pc = "trigger"]
        /\ UNCHANGED timer
     \/ ReturnTriggered(r, "err", JSONError(req[r].responses,
                                            StatusInternalServerError))
     \/ ReturnTriggered(r, "nil", JSONSuccess(req[r].responses))
  /\ UNCHANGED <<buildLock, isBusy, file, cycle>>
  /\ UNCHANGED <<staged, web>>

\* BuildAndPushImageReturn as it would be if the handler answered 200 without
\* looking at the error of the trigger call.
BuildAndPushImageReturn_IgnoreError(r) ==
  /\ req[r].pc = "triggering"
  /\ \/ ReturnTriggered(r, "err", JSONSuccess(req[r].responses))
     \/ ReturnTriggered(r, "nil", JSONSuccess(req[r].responses))
  /\ UNCHANGED <<buildLock, isBusy, file, cycle>>
  /\ UNCHANGED <<staged, web>>

\* BuildAndPushImage() returns: an error answers 500, nil answers 200.
BuildAndPushImageReturn(r) ==
  /\ req[r].pc = "triggering"
  /\ \/ ReturnTriggered(r, "err", JSONError(req[r].responses,
                                            StatusInternalServerError))
     \/ ReturnTriggered(r, "nil", JSONSuccess(req[r].responses))
  /\ UNCHANGED <<buildLock, isBusy, file, cycle>>
  /\ UNCHANGED <<staged, web>>

\* -------------------------------------------------------- DownloadVddkTar
\* A GET download-tar request reaches the handler: h.Prepare(ctx).
DownloadPrepare ==
  /\ dl.pc \in {"idle", "done"}
  /\ \/ dl' = [NoDownload EXCEPT !.pc = "stat"]
     \/ \E st \in PrepareFailures :
          dl' = [NoDownload EXCEPT !.pc = "done", !.code = st]
  /\ UNCHANGED <<buildLock, isBusy, req, timer, file, cycle, staged>>
  /\ UNCHANGED <<registry, lookup>>

\* os.Stat(filePath): a missing file answers 404, another error 500.
DownloadStat ==
  /\ dl.pc = "stat"
  /\ \/ /\ file.exists
        /\ dl' = [dl EXCEPT !.pc = "serve"]
     \/ /\ ~file.exists
        /\ dl' = [dl EXCEPT !.pc = "done", !.code = StatusNotFound]
     \/ dl' = [dl EXCEPT !.pc = "done", !.code = StatusInternalServerError]
  /\ UNCHANGED <<buildLock, isBusy, req, timer, file, cycle, staged>>
  /\ UNCHANGED <<registry, lookup>>

\* ctx.File(filePath) sends what the file holds.
DownloadServe ==
  /\ dl.pc = "serve"
  /\ dl' = [pc |-> "done", code |-> StatusOK, data |-> file.data]
  /\ UNCHANGED <<buildLock, isBusy, req, timer, file, cycle, staged>>
  /\ UNCHANGED <<registry, lookup>>

DownloadNext == DownloadPrepare \/ DownloadStat \/ DownloadServe

\* ---------------------------------------------------------------- ImageUrl
\* The build pushes the image: the ImageStreamTag comes to exist, or moves to
\* another image.
TagPush ==
  /\ \E ref \in ImageRefs :
       /\ registry # [exists |-> TRUE, ref |-> ref]
       /\ registry' = [exists |-> TRUE, ref |-> ref]
  /\ UNCHANGED <<buildLock, isBusy, req, timer, file, cycle, staged, dl, lookup>>

\* The end of an ImageUrl request with JSONError(code).
LookupError(r, code) ==
  lookup' = [lookup EXCEPT ![r].pc = "done", ![r].code = code,
                           ![r].status = "error"]

\* A GET image-url request reaches the handler: h.Prepare(ctx).
ImagePrepare(r) ==
  /\ lookup[r].pc \in {"idle", "done"}
  /\ \/ lookup' = [lookup EXCEPT ![r] = [NoLookup EXCEPT !.pc = "namespace"]]
     \/ \E st \in PrepareFailures :
          lookup' = [lookup EXCEPT ![r] =
                       [NoLookup EXCEPT !.pc = "done", !.code = st]]
  /\ UNCHANGED <<buildLock, isBusy, req, timer, file, cycle, staged, dl, registry>>

\* namespace, err := currentNamespace()
ImageNamespace(r) ==
  /\ lookup[r].pc = "namespace"
  /\ \/ lookup' = [lookup EXCEPT ![r].pc = "config"]
     \/ LookupError(r, StatusInternalServerError)
  /\ UNCHANGED <<buildLock, isBusy, req, timer, file, cycle, staged, dl, registry>>

\* cfg, err := rest.InClusterConfig()
ImageConfig(r) ==
  /\ lookup[r].pc = "config"
  /\ \/ lookup' = [lookup EXCEPT ![r].pc = "client"]
     \/ LookupError(r, StatusInternalServerError)
  /\ UNCHANGED <<buildLock, isBusy, req, timer, file, cycle, staged, dl, registry>>

\* imgClient, err := imagev1client.NewForConfig(cfg)
ImageClient(r) ==
  /\ lookup[r].pc = "client"
  /\ \/ lookup' = [lookup EXCEPT ![r].pc = "get"]
     \/ LookupError(r, StatusInternalServerError)
  /\ UNCHANGED <<buildLock, isBusy, req, timer, file, cycle, staged, dl, registry>>

\* What ImageStreamTags(namespace).Get can return for the tag as it is: the
\* tag, a NotFound error, or another error (the API server out of reach).
GetResults ==
  {[err |-> "other", ref |-> ""]} \cup
  (IF registry.exists
   THEN {[err |-> "nil", ref |-> registry.ref]}
   ELSE {[err |-> "notfound", ref |-> ""]})

\* imageReference as it would be without the kerrors.IsNotFound test.
imageReference_NoNotFound(get) ==
  IF get.err # "nil"
  THEN [url |-> "", exists |-> FALSE, err |-> "error"]
  ELSE [url |-> get.ref, exists |-> TRUE, err |-> "nil"]

\* imageReference: (url, exists, err) from what Get returned.
imageReference(get) ==
  IF get.err = "notfound"
  THEN [url |-> "", exists |-> FALSE, err |-> "nil"]
  ELSE IF get.err # "nil"
       THEN [url |-> "", exists |-> FALSE, err |-> "error"]
       ELSE [url |-> get.ref, exists |-> TRUE, err |-> "nil"]

\* url, exists, err := imageReference(ctx, imgClient, namespace, tag)
ImageGet(r) ==
  /\ lookup[r].pc = "get"
  /\ \E get \in GetResults :
       lookup' = [lookup EXCEPT ![r].pc = "respond", ![r].get = get,
                                ![r].url = imageReference(get).url,
                                ![r].exists = imageReference(get).exists,
                                ![r].err = imageReference(get).err]
  /\ UNCHANGED <<buildLock, isBusy, req, timer, file, cycle, staged, dl, registry>>

\* The answer of ImageUrl: 500 on err, 404 on !exists, else 200 with the url.
ImageRespond(r) ==
  /\ lookup[r].pc = "respond"
  /\ IF lookup[r].err # "nil"
     THEN LookupError(r, StatusInternalServerError)
     ELSE IF ~lookup[r].exists
          THEN LookupError(r, StatusNotFound)
          ELSE lookup' = [lookup EXCEPT ![r].pc = "done",
                                        ![r].code = StatusOK,
                                        ![r].status = "success",
                                        ![r].imageReference = lookup[r].url]
  /\ UNCHANGED <<buildLock, isBusy, req, timer, file, cycle, staged, dl, registry>>

ImageNext ==
  \/ TagPush
  \/ \E r \in Reqs : ImagePrepare(r)
  \/ \E r \in Reqs : ImageNamespace(r)
  \/ \E r \in Reqs : ImageConfig(r)
  \/ \E r \in Reqs : ImageClient(r)
  \/ \E r \in Reqs : ImageGet(r)
  \/ \E r \in Reqs : ImageRespond(r)

\* The image-url endpoint and the registry.
ImageSpec == Init /\ [][ImageNext]_vars

\* -------------------------------------------------------------------- Next
Next ==
  \/ Tick
  \/ \E r \in Reqs : SleepReturns(r)
  \/ \E r \in Reqs : resetBusy(r)
  \/ \E r \in Reqs : Arrive(r)
  \/ \E r \in Reqs : Prepare(r)
  \/ \E r \in Reqs : Lock(r)
  \/ \E r \in Reqs : CheckBusy(r)
  \/ \E r \in Reqs : SetBusy(r)
  \/ \E r \in Reqs : FormFile(r)
  \/ \E r \in Reqs : Open(r)
  \/ \E r \in Reqs : MkdirAll(r)
  \/ \E r \in Reqs : Create(r)
  \/ \E r \in Reqs : CopyWrite(r)
  \/ \E r \in Reqs : CopyDone(r)
  \/ \E r \in Reqs : CopyError(r)
  \/ \E r \in Reqs : BuildAndPushImageCall(r)
  \/ \E r \in Reqs : BuildAndPushImageReturn(r)

Spec == Init /\ [][Next]_vars

\* The build endpoint together with the download endpoint.
DownloadSpec == Init /\ [][Next \/ DownloadNext]_vars

\* One upload client, which posts its next build-image request when the
\* release of its last one has fired, and the download endpoint.
Step(r) ==
  \/ SleepReturns(r)
  \/ resetBusy(r)
  \/ Prepare(r)
  \/ Lock(r)
  \/ CheckBusy(r)
  \/ SetBusy(r)
  \/ FormFile(r)
  \/ Open(r)
  \/ MkdirAll(r)
  \/ Create(r)
  \/ CopyWrite(r)
  \/ CopyDone(r)
  \/ CopyError(r)
  \/ BuildAndPushImageCall(r)
  \/ BuildAndPushImageReturn(r)

RoundTripNext ==
  \/ DownloadNext
  \/ Tick
  \/ \E r \in Reqs : Arrive(r) /\ \A o \in Reqs \ {r} : req[o].pc = "new"
  \/ \E r \in Reqs : Step(r)

RoundTripSpec == Init /\ [][RoundTripNext]_vars

\* The lease by itself: the admission of BuildImage, up to the read of the
\* form file, and resetBusy called by any goroutine at any time.
LeaseNext ==
  \/ \E r \in Reqs : resetBusyCall(r)
  \/ \E r \in Reqs : SleepReturns(r)
  \/ \E r \in Reqs : resetBusy(r)
  \/ \E r \in Reqs : Arrive(r)
  \/ \E r \in Reqs : Prepare(r)
  \/ \E r \in Reqs : Lock(r)
  \/ \E r \in Reqs : CheckBusy(r)
  \/ \E r \in Reqs : SetBusy(r)

LeaseSpec == Init /\ [][LeaseNext]_vars

TypeOK ==
  /\ buildLock \in {Free} \cup {Handler(r) : r \in Reqs} \cup {Goroutine(r) : r \in Reqs}
  /\ isBusy \in BOOLEAN
  /\ \A r \in Reqs :
       /\ req[r].copied \in 0..MaxLen
       /\ req[r].triggerCalls \in 0..2
       /\ timer[r].state \in {"none", "sleeping", "locked"}
       /\ timer[r].remaining \in 0..waitForDownload
  /\ file.exists \in BOOLEAN

\* Fairness of the Go scheduler and of the runtime's timers: a runnable
\* goroutine runs, a sleep ends, and sync.Mutex hands the lock to a waiter.
\* The calls that wait on a peer (the upload read of ctx.FormFile, the API
\* call of BuildAndPushImage) are not bound to return.
FairSpec ==
  /\ Spec
  /\ WF_vars(Tick)
  /\ \A r \in Reqs :
       /\ SF_vars(SleepReturns(r))
       /\ WF_vars(resetBusy(r))
       /\ WF_vars(Prepare(r))
       /\ SF_vars(Lock(r))
       /\ WF_vars(CheckBusy(r))
       /\ WF_vars(SetBusy(r))
       /\ WF_vars(Open(r))
       /\ WF_vars(MkdirAll(r))
       /\ WF_vars(Create(r))
       /\ WF_vars(CopyWrite(r) \/ CopyDone(r) \/ CopyError(r))
       /\ WF_vars(BuildAndPushImageCall(r))

\* ------------------------------------------------------------------ helpers
LastCode(r) == req[r].responses[Len(req[r].responses)].code

Answered(r, code) ==
  /\ req[r].pc = "done"
  /\ req[r].responses # <<>>
  /\ LastCode(r) = code

\* --------------------------------------------------------------------- C1
\* C1: requests that reach the admission check while the lease is idle: in a
\* lease cycle (until a resetBusy fires) exactly one of them is admitted, it
\* is the first to run the check, and every other one is answered 503.
C1_ExactlyOneAdmitted ==
  /\ [](cycle.admits <= 1 /\ (isBusy <=> cycle.admits = 1))
  /\ [][\A r \in Reqs :
          (req[r].pc = "check" /\ req'[r].pc # "check") =>
            IF cycle.admits = 0
            THEN req'[r].pc = "set"
            ELSE /\ req'[r].pc = "done"
                 /\ req'[r].responses =
                      <<[code |-> StatusServiceUnavailable, status |-> "error"]>>
                 /\ ~req'[r].admitted]_vars

\* Two requests met at the admission of one cycle: one holds the lease, the
\* other was answered 503.
C1_Witness ==
  \E a, b \in Reqs :
    /\ a # b
    /\ req[a].admitted /\ req[a].pc \in AdmittedPcs
    /\ Answered(b, StatusServiceUnavailable) /\ req[b].sawBusy
    /\ cycle.admits = 1

\* --------------------------------------------------------------------- C2
\* C2: at most one admitted BuildImage request is between its admission and
\* its handler's return, in every reachable state.
C2_AtMostOneInFlight == Cardinality(InFlight) <= 1

\* A request is in flight in a later lease cycle than another admitted one.
C2_Witness ==
  \E a, b \in Reqs :
    /\ a # b
    /\ req[a].pc \in AdmittedPcs
    /\ req[b].pc = "done" /\ req[b].admitted
    /\ cycle.admits = 1

\* --------------------------------------------------------------------- C3
\* C3: a request answered 400 for its missing file field left the lease
\* untouched: it did not set isBusy and it scheduled no release.
C3_MissingFileLeavesLease ==
  \A r \in Reqs :
    Answered(r, StatusBadRequest) =>
      (~req[r].admitted /\ timer[r].state = "none")

\* --------------------------------------------------------------------- C4
\* C4: whenever the lease is busy it is idle again later, the timers and the
\* scheduler being fair, even when the admitted request's upload read or
\* trigger call never returns.
C4_BusyLeadsToIdle == isBusy ~> ~isBusy

\* --------------------------------------------------------------------- C5
\* C5: the busy return of BuildImage changes nothing but the request itself:
\* not the staged file, not isBusy, no release is scheduled, no trigger is
\* called; and the rejected request stays as it is (it is never admitted
\* later) until a new request takes its place.
C5_RejectedNoSideEffects ==
  /\ [][\A r \in Reqs :
          (req[r].pc = "check" /\ req'[r].pc = "done") =>
            /\ isBusy' = isBusy
            /\ file' = file
            /\ timer' = timer
            /\ cycle' = cycle
            /\ req'[r].triggerCalls = 0
            /\ ~req'[r].admitted
            /\ \A o \in Reqs \ {r} : req'[o] = req[o]]_vars
  /\ [][\A r \in Reqs :
          (req[r].pc = "done" /\ req[r].sawBusy) =>
            (req'[r] = req[r] \/ req'[r] = [NewReq EXCEPT !.pc = "prepare"])]_vars
  /\ [](\A r \in Reqs :
          (req[r].pc = "done" /\ req[r].sawBusy) => timer[r].state = "none")

\* A request was answered 503 while the admitted one has a staged file and a
\* trigger call behind it.
C5_Witness ==
  \E a, b \in Reqs :
    /\ a # b
    /\ req[b].pc = "done" /\ req[b].sawBusy
    /\ req[a].pc = "triggering" /\ file.exists /\ isBusy

\* --------------------------------------------------------------------- C6
\* C6: an admitted request that failed in staging or in its trigger call (it
\* answered 500) leaves isBusy set on return, and isBusy stays set for as
\* long as its release sleeps; isBusy is cleared only by a release that has
\* slept the whole of waitForDownload.
Failed(r) ==
  /\ req[r].admitted
  /\ Answered(r, StatusInternalServerError)

C6_NoShortcutRelease ==
  /\ [](\A r \in Reqs :
          (Failed(r) /\ timer[r].state = "sleeping") => isBusy)
  /\ [][\A r \in Reqs :
          (req[r].pc \in AdmittedPcs /\ req'[r].pc = "done") => isBusy']_vars
  /\ [][(isBusy /\ ~isBusy') =>
          \E r \in Reqs :
            /\ timer[r].state = "locked"
            /\ timer[r].elapsed >= waitForDownload]_vars

\* A failed request's release is part of the way through its sleep.
C6_Witness ==
  \E r \in Reqs :
    /\ Failed(r)
    /\ timer[r].state = "sleeping"
    /\ timer[r].elapsed > 0 /\ timer[r].remaining > 0
    /\ isBusy

\* --------------------------------------------------------------------- C7
\* C7: when the handler of an admitted request returns, whatever it answered,
\* a release with the whole of waitForDownload to sleep has been scheduled
\* by it.
C7_ReleaseScheduledOnReturn ==
  [][\A r \in Reqs :
       (req[r].pc \in AdmittedPcs /\ req'[r].pc = "done") =>
         timer'[r] = [state |-> "sleeping", remaining |-> waitForDownload,
                      elapsed |-> 0]]_vars

\* A request whose trigger call failed has just returned, its release pending.
C7_Witness ==
  \E r \in Reqs :
    /\ Failed(r) /\ req[r].triggerCalls = 1
    /\ timer[r] = [state |-> "sleeping", remaining |-> waitForDownload,
                   elapsed |-> 0]

\* --------------------------------------------------------------------- C8
\* C8: a scheduled release wakes, and clears isBusy, only when waitForDownload
\* has passed since it was scheduled; and after a release has fired, the
\* first request to run the admission check passes it and is admitted.
C8_ReleaseAfterDelayThenAdmit ==
  /\ [][\A r \in Reqs :
          (timer[r].state # "none" /\ timer'[r].state \in {"locked", "none"}) =>
            timer[r].elapsed >= waitForDownload]_vars
  /\ [][\A r \in Reqs :
          (cycle.fired /\ req[r].pc = "check" /\ req'[r].pc # "check") =>
            req'[r].pc = "set"]_vars
  /\ [][\A r \in Reqs :
          (cycle.fired /\ req[r].pc = "set" /\ req'[r].pc # "set") =>
            (isBusy' /\ req'[r].admitted /\ req'[r].pc = "formfile")]_vars

\* After a release fired, a request has passed the admission check.
C8_Witness ==
  \E r \in Reqs : cycle.fired /\ ~isBusy /\ req[r].pc = "set"

\* --------------------------------------------------------------------- C9
\* C9: BuildAndPushImage is called only by a handler whose os.Create
\* succeeded and whose io.Copy moved the whole upload to the staged file; a
\* request whose staging failed never called it.
C9_TriggerOnlyAfterStaging ==
  \A r \in Reqs :
    /\ req[r].pc \in {"trigger", "triggering"} =>
         /\ req[r].dst = "open"
         /\ req[r].copied = Len(req[r].upload.data)
         /\ file.exists
         /\ file.data = req[r].upload.data
         /\ req[r].responses = <<>>
    /\ req[r].triggerCalls > 0 =>
         (req[r].pc = "triggering" \/ (req[r].pc = "done" /\ Len(req[r].responses) = 1))

\* The trigger call of a request whose upload of MaxLen bytes is staged.
C9_Witness ==
  \E r \in Reqs :
    /\ req[r].pc = "triggering"
    /\ Len(req[r].upload.data) = MaxLen
    /\ file.data = req[r].upload.data

\* -------------------------------------------------------------------- C10
\* C10: no two BuildAndPushImage calls are in progress at once, a request
\* calls it at most once, and at most one call is started in a lease cycle.
Triggering == {r \in Reqs : req[r].pc = "triggering"}

C10_OneTriggerPerCycle ==
  /\ Cardinality(Triggering) <= 1
  /\ \A r \in Reqs : req[r].triggerCalls <= 1
  /\ cycle.triggers <= 1

\* A trigger call is in progress in a later cycle than another request's.
C10_Witness ==
  \E a, b \in Reqs :
    /\ a # b
    /\ req[a].pc = "triggering"
    /\ req[b].pc = "done" /\ req[b].triggerCalls = 1
    /\ cycle.triggers = 1

\* -------------------------------------------------------------------- C11
\* C11: a BuildImage request writes one response: no request has a second
\* status and body written for it, on any path.
C11_OneResponse ==
  \A r \in Reqs : Len(req[r].responses) <= 1

\* -------------------------------------------------------------------- C12
\* C12: after an admitted upload failed in its copy to the staged file, a
\* download does not serve the torn file: while no payload was ever staged
\* whole, its os.Stat step ends the request (404) and no 200 is answered.
Staging == {r \in Reqs : req[r].pc = "copy" /\ req[r].dst = "open"}

\* The last os.Create was followed by an io.Copy that failed.
Torn == file.exists /\ ~staged.valid /\ Staging = {}

C12_FailedCopyNotServed ==
  /\ [][(Torn /\ staged.count = 0 /\ dl.pc = "stat" /\ dl'.pc # "stat") =>
          (dl'.pc = "done" /\ dl'.code # StatusOK)]_vars
  /\ [][(Torn /\ dl.pc = "serve" /\ dl'.pc = "done") =>
          staged.count > 0]_vars

\* -------------------------------------------------------------------- C13
\* C13: when the last staging succeeded and no os.Create followed it, the
\* staged file holds the payload of that upload and nothing else, and a
\* download served then answers 200 with that payload.
C13_RoundTrip ==
  /\ [](staged.valid => (file.exists /\ file.data = staged.data))
  /\ [][(staged.valid /\ dl.pc = "stat" /\ dl'.pc # "stat") =>
          (dl'.pc = "serve" \/ dl'.code = StatusInternalServerError)]_vars
  /\ [][(staged.valid /\ dl.pc = "serve" /\ dl'.pc = "done") =>
          (dl'.code = StatusOK /\ dl'.data = staged.data)]_vars

\* A download has answered with the payload of the second staged upload.
C13_Witness ==
  /\ staged.valid /\ staged.count = 2
  /\ Len(staged.data) = MaxLen
  /\ dl.pc = "done" /\ dl.code = StatusOK /\ dl.data = staged.data

\* -------------------------------------------------------------------- C20
\* C20: a download served while an upload is being copied to the staged file
\* does not answer 200 with the file as it is then: no 200 is answered while
\* no payload was ever staged whole.
C20_NoIntermediateFile ==
  [][(Staging # {} /\ dl.pc = "serve" /\ dl'.pc = "done") =>
       staged.count > 0]_vars

\* -------------------------------------------------------------------- C14
\* C14: the admission check answers 503 with the error envelope and ends the
\* request when isBusy is true, and writes nothing when it is false; 503 is
\* the answer of a request if and only if its check read isBusy true, and no
\* admitted request (missing file, staging failure, trigger failure) has it.
Codes(r) == {req[r].responses[i].code : i \in 1..Len(req[r].responses)}

C14_BusyIsDistinct ==
  /\ [][\A r \in Reqs :
          (req[r].pc = "check" /\ req'[r].pc # "check") =>
            IF isBusy
            THEN /\ req'[r].pc = "done"
                 /\ req'[r].responses =
                      <<[code |-> StatusServiceUnavailable, status |-> "error"]>>
            ELSE /\ req'[r].pc = "set"
                 /\ req'[r].responses = <<>>]_vars
  /\ [](\A r \in Reqs :
          /\ (StatusServiceUnavailable \in Codes(r)) <=> req[r].sawBusy
          /\ req[r].sawBusy => (~req[r].admitted /\ Len(req[r].responses) = 1)
          /\ req[r].admitted => StatusServiceUnavailable \notin Codes(r))

\* One request was rejected as busy while another, admitted, answered 400.
C14_Witness ==
  \E a, b \in Reqs :
    /\ Answered(a, StatusServiceUnavailable) /\ req[a].sawBusy
    /\ req[b].admitted /\ Answered(b, StatusBadRequest)

\* -------------------------------------------------------------------- C15
\* C15: 200 with the success envelope is the answer of a request if and only
\* if its BuildAndPushImage call returned nil, and that call is made by an
\* admitted request whose file was present and copied whole to the staged
\* file; a request that fails in staging or in the trigger call ends with
\* 500 and the error envelope, and no 200.
OkResponse == [code |-> StatusOK, status |-> "success"]
ErrResponse == [code |-> StatusInternalServerError, status |-> "error"]

C15_SuccessIffTriggered ==
  /\ [](\A r \in Reqs :
          /\ (StatusOK \in Codes(r)) <=> req[r].triggerErr = "nil"
          /\ req[r].triggerErr = "nil" => req[r].responses = <<OkResponse>>
          /\ req[r].triggerErr = "err" => req[r].responses = <<ErrResponse>>
          /\ req[r].triggerErr # "none" =>
                (req[r].admitted /\ req[r].pc = "done"))
  /\ [][\A r \in Reqs :
          (req[r].triggerErr = "none" /\ req'[r].triggerErr # "none") =>
            /\ req[r].pc = "triggering"
            /\ req[r].upload.present
            /\ req[r].copied = Len(req[r].upload.data)
            /\ file.data = req[r].upload.data]_vars
  /\ [][\A r \in Reqs :
          (req[r].pc \in {"open", "mkdir", "create", "copy"}
             /\ req'[r].pc = "done") =>
            /\ req'[r].responses # <<>>
            /\ \A i \in 1..Len(req'[r].responses) :
                 req'[r].responses[i] = ErrResponse]_vars

\* One request answered 200 and another failed in staging with 500.
C15_Witness ==
  \E a, b \in Reqs :
    /\ req[a].triggerErr = "nil" /\ Answered(a, StatusOK)
    /\ req[b].admitted /\ req[b].triggerCalls = 0
    /\ Answered(b, StatusInternalServerError)

\* -------------------------------------------------------------------- C19
\* C19: at most one scheduled release is pending (asleep, or in resetBusy
\* before it has cleared isBusy); one is pending only while isBusy is true
\* and no admitted handler runs, and only for an admitted request; isBusy
\* true means admitted handlers in flight plus pending releases is 1, isBusy
\* false means it is 0.
Pending == {r \in Reqs : timer[r].state # "none"}

C19_OneHolderOrRelease ==
  /\ Cardinality(Pending) <= 1
  /\ Pending # {} => (isBusy /\ InFlight = {})
  /\ \A r \in Pending :
       req[r].pc = "done" /\ req[r].admitted /\ ~req[r].sawBusy
  /\ isBusy => Cardinality(InFlight) + Cardinality(Pending) = 1
  /\ ~isBusy => Cardinality(InFlight) + Cardinality(Pending) = 0

\* A release is pending, and another request was rejected as busy.
C19_Witness ==
  \E a, b \in Reqs :
    /\ Pending = {a} /\ isBusy
    /\ Answered(b, StatusServiceUnavailable)

\* -------------------------------------------------------------------- C18
\* A scheduled release is stale when it is pending although an admitted
\* handler runs, another release is pending, or a request was admitted since
\* the admission that scheduled it.
StaleRelease ==
  \E r \in Pending :
    \/ InFlight # {}
    \/ Pending # {r}
    \/ cycle.admits > 1

\* C18 as stated: a release left over from an earlier admission cycle comes
\* to fire while a later admitted request holds the lease.
C18_StaleReleaseFires ==
  <>(\E r \in Reqs : timer[r].state = "locked" /\ isBusy /\ StaleRelease)

\* C18: no scheduled release is stale: a release is pending only after the
\* one admitted handler of its cycle has returned, no request is admitted
\* before it fires, and the isBusy it clears is the one set by the admission
\* that scheduled it.
C18_NoStaleRelease ==
  /\ ~StaleRelease
  /\ \A r \in Reqs :
       timer[r].state = "locked" =>
         (isBusy /\ cycle.admits = 1 /\ req[r].admitted /\ req[r].pc = "done")

\* A release is firing in a later cycle than that of another request, whose
\* own release has fired.
C18_Witness ==
  \E a, b \in Reqs :
    /\ a # b
    /\ timer[a].state = "locked" /\ isBusy
    /\ req[b].admitted /\ req[b].pc = "done" /\ timer[b].state = "none"

\* -------------------------------------------------------------------- C16
\* C16: resetBusy runs whatever the state of the lease and whoever its caller
\* is: it leaves isBusy false and buildLock free, whether isBusy was true or
\* false and whichever request set it, and changes nothing else of the
\* requests or of the staged file.
C16_ReleaseUnconditional ==
  /\ [](\A r \in Reqs : timer[r].state = "locked" => ENABLED resetBusy(r))
  /\ [][\A r \in Reqs :
          (timer[r].state = "locked" /\ timer'[r].state = "none") =>
            /\ ~isBusy'
            /\ buildLock' = Free
            /\ req' = req
            /\ file' = file]_vars

\* resetBusy is about to run while the lease is idle, after a release has
\* fired with no admission since, and another call of it waits for the lock.
C16_Witness ==
  \E a, b \in Reqs :
    /\ a # b
    /\ timer[a].state = "locked" /\ ~isBusy /\ cycle.fired
    /\ timer[b].state = "sleeping" /\ timer[b].remaining = 0

\* -------------------------------------------------------------------- C17
\* C17: a lookup whose Get found the tag absent (NotFound) has no error and
\* answers 404; one whose Get returned the tag answers 200 with the reference
\* the tag had; 500 is answered only when Get failed otherwise or a step
\* before it failed. Get reports NotFound only while the tag does not exist.
C17_AbsenceIsNotFailure ==
  /\ [](\A r \in Reqs :
          /\ lookup[r].get.err = "notfound" =>
               (~lookup[r].exists /\ lookup[r].err = "nil")
          /\ (lookup[r].pc = "done" /\ lookup[r].get.err = "notfound") =>
               (lookup[r].code = StatusNotFound /\ lookup[r].status = "error")
          /\ (lookup[r].pc = "done" /\ lookup[r].get.err = "nil") =>
               /\ lookup[r].code = StatusOK /\ lookup[r].status = "success"
               /\ lookup[r].imageReference = lookup[r].get.ref
               /\ lookup[r].imageReference \in ImageRefs
          /\ (lookup[r].pc = "done" /\ lookup[r].status = "error"
                 /\ lookup[r].code = StatusInternalServerError) =>
               lookup[r].get.err \in {"none", "other"})
  /\ [][\A r \in Reqs :
          (lookup[r].pc = "get" /\ lookup'[r].pc = "respond") =>
            /\ lookup'[r].get.err = "notfound" => ~registry.exists
            /\ lookup'[r].get.err = "nil" =>
                 (registry.exists /\ lookup'[r].get.ref = registry.ref)]_vars

\* One lookup answered 404 for the absent tag and a later one answers 200
\* with the reference the tag has now.
C17_Witness ==
  \E a, b \in Reqs :
    /\ lookup[a].pc = "done" /\ lookup[a].code = StatusNotFound
    /\ lookup[a].get.err = "notfound"
    /\ lookup[b].pc = "done" /\ lookup[b].code = StatusOK
    /\ registry.exists /\ lookup[b].imageReference = registry.ref

====
